---- MODULE Spec2Model ----
(***************************************************************************)
(* A model of src/ai_study_app.py (AiStudyApp): the task list, the naive   *)
(* scheduler generate_schedule, and the focus timer with its background    *)
(* _countdown thread and the points total.                                 *)
(*                                                                         *)
(* Units.  Hours are kept in hundredths of an hour (centihours), the       *)
(* resolution of the "%.2f" text the schedule stores; an unrounded         *)
(* quotient is kept exactly, as a pair <<numerator, denominator>>.         *)
(* Dates are day numbers; DateTable gives their "YYYY-MM-DD" text.         *)
(***************************************************************************)
EXTENDS Integers, Sequences, FiniteSets, TLC

VARIABLES
    tasks,          \* self.tasks: the list of Task objects
    daily_hours,    \* self.daily_hours: None, or the cached capacity
    schedule,       \* self.schedule: list of (date_str, "name: h.hhh")
    today,          \* datetime.today().date(): the day the program runs on
    timer_running,  \* self.timer_running
    points,         \* self.points
    timer_label,    \* text of self.timer_label
    points_label,   \* number shown by self.points_label
    threads,        \* the _countdown threads created so far, oldest first
    focus_thread,   \* self.focus_thread: 0 (None) or index into threads
    cancelled       \* history: the sessions (thread indices) asked to cancel,
                    \* .early while time remained, .late after it had run out

schedVars == <<tasks, daily_hours, schedule, today>>
timerVars == <<timer_running, points, timer_label, points_label, threads,
               focus_thread, cancelled>>
vars == <<tasks, daily_hours, schedule, today, timer_running, points,
          timer_label, points_label, threads, focus_thread, cancelled>>

(***************************************************************************)
(* Bounds of the model.                                                    *)
(***************************************************************************)
MaxTasks == 2       \* tasks added
MaxDue == 4         \* latest due day a user enters
MaxToday == 1       \* latest day the program is run on
MaxSessions == 2    \* focus sessions (countdown threads) started
ClockStep == 30     \* seconds that pass in one step of the clock

(***************************************************************************)
(* Program constants.                                                      *)
(***************************************************************************)
CentiPerHour == 100         \* "%.2f": two decimals
SecondsPerMinute == 60      \* seconds = minutes * 60
PointsPerSession == 10      \* self.points += 10

None == <<>>                \* Python's None; a present value v is <<v>>
Some(v) == <<v>>

Max(a, b) == IF a >= b THEN a ELSE b

(***************************************************************************)
(* Text entered by the user, and what Python's parsers make of it.         *)
(***************************************************************************)
Names == {"a", "b"}
NameStrs == {""} \cup Names
HoursStrs == {"", "abc", "0", "1", "6"}
CapacityStrs == {"abc", "0", "1", "2"}
MinutesStrs == {"abc", "2.5", "-1", "0", "1", "2"}

DateTable ==
    <<"2023-12-31", "2024-01-01", "2024-01-02", "2024-01-03", "2024-01-04",
      "2024-01-05", "2024-01-06", "2024-01-07", "2024-01-08", "2024-01-09">>
Days == 0..(Len(DateTable) - 1)
\* date.strftime("%Y-%m-%d")
Strftime(d) == DateTable[d + 1]
DueStrs == {"", "01/02/2024"} \cup {Strftime(d) : d \in 0..MaxDue}

\* float(s): None stands for ValueError.  Values in centihours.
ParseFloat(s) ==
    CASE s = "-1" -> Some(0 - CentiPerHour)
      [] s = "0" -> Some(0)
      [] s = "1" -> Some(CentiPerHour)
      [] s = "2" -> Some(2 * CentiPerHour)
      [] s = "6" -> Some(6 * CentiPerHour)
      [] OTHER -> None

\* int(s): None stands for ValueError ("2.5" and "abc" are no integers).
ParseInt(s) ==
    CASE s = "-1" -> Some(0 - 1)
      [] s = "0" -> Some(0)
      [] s = "1" -> Some(1)
      [] s = "2" -> Some(2)
      [] OTHER -> None

\* datetime.strptime(s, "%Y-%m-%d"): None stands for ValueError.
Strptime(s) ==
    IF \E d \in Days : Strftime(d) = s
    THEN Some(CHOOSE d \in Days : Strftime(d) = s)
    ELSE None

(***************************************************************************)
(* Task                                                                    *)
(***************************************************************************)
Task(name, hours, due_date) ==
    [name |-> name, hours |-> hours, due_date |-> due_date, completed_hours |-> 0]

remaining_hours(task) == Max(task.hours - task.completed_hours, 0)

(***************************************************************************)
(* add_task                                                                *)
(***************************************************************************)
\* The warning add_task shows for this input, "" when it is accepted.
AddTaskError(name, hours_str, due_str) ==
    IF name = "" \/ hours_str = "" \/ due_str = "" THEN "incomplete"
    ELSE IF ParseFloat(hours_str) = None THEN "hours_format"
    ELSE IF Strptime(due_str) = None THEN "date_format"
    ELSE ""

\* add_task with these three entry fields (already stripped)
AddTaskWith(name, hours_str, due_str) ==
    /\ Len(tasks) < MaxTasks
    /\ LET err == AddTaskError(name, hours_str, due_str) IN
       IF err # ""
       THEN UNCHANGED tasks                     \* a warning is shown
       ELSE tasks' = Append(tasks, Task(name, ParseFloat(hours_str)[1],
                                        Strptime(due_str)[1]))
    /\ UNCHANGED <<daily_hours, schedule, today>>
    /\ UNCHANGED timerVars

add_task ==
    \E name \in NameStrs, hours_str \in HoursStrs, due_str \in DueStrs :
        AddTaskWith(name, hours_str, due_str)

(***************************************************************************)
(* generate_schedule                                                       *)
(***************************************************************************)
\* sorted(self.tasks, key=lambda t: t.due_date): stable, by insertion.
RECURSIVE InsertByDue(_, _)
InsertByDue(sorted, task) ==
    IF sorted = <<>> THEN <<task>>
    ELSE IF Head(sorted).due_date <= task.due_date
         THEN <<Head(sorted)>> \o InsertByDue(Tail(sorted), task)
         ELSE <<task>> \o sorted

RECURSIVE SortedByDue(_)
SortedByDue(ts) ==
    IF ts = <<>> THEN <<>>
    ELSE InsertByDue(SortedByDue(SubSeq(ts, 1, Len(ts) - 1)), ts[Len(ts)])

\* total_days without the "+ 1": the due day itself is not counted.
TotalDaysOffByOne(task, day) ==
    LET d == task.due_date - day IN IF d <= 0 THEN 1 ELSE d

\* total_days
TotalDays(task, day) ==
    LET d == (task.due_date - day) + 1 IN IF d <= 0 THEN 1 ELSE d

\* hours_today = min(daily_allocation, self.daily_hours), as an exact fraction
HoursToday(task, day, capacity) ==
    LET r == remaining_hours(task)
        n == TotalDays(task, day)
    IN  IF capacity * n < r THEN <<capacity, 1>> ELSE <<r, n>>

\* f"{hours_today:.2f}": the fraction rounded to the nearest centihour, ties to even
Format2f(q) ==
    LET whole == q[1] \div q[2]
        rest == q[1] % q[2]
    IN  IF 2 * rest < q[2] THEN whole
        ELSE IF 2 * rest > q[2] THEN whole + 1
        ELSE IF whole % 2 = 0 THEN whole ELSE whole + 1

\* one entry of self.schedule
Entry(date, task, q) ==
    [date |-> Strftime(date), name |-> task.name, hours |-> Format2f(q)]

\* the while loop over current_date, for one task
RECURSIVE DayLoop(_, _, _, _)
DayLoop(task, current_date, day, capacity) ==
    IF current_date <= task.due_date
    THEN <<Entry(current_date, task, HoursToday(task, day, capacity))>>
         \o DayLoop(task, current_date + 1, day, capacity)
    ELSE <<>>

\* A scheduler that shares the daily capacity among the tasks of a date.
RECURSIVE UsedOn(_, _)
UsedOn(entries, date_str) ==
    IF entries = <<>> THEN 0
    ELSE (IF Head(entries).date = date_str THEN Head(entries).hours ELSE 0)
         + UsedOn(Tail(entries), date_str)

RECURSIVE SharedLoop(_, _, _, _)
SharedLoop(tasks_sorted, day, capacity, done) ==
    IF tasks_sorted = <<>> THEN done
    ELSE LET own == DayLoop(Head(tasks_sorted), day, day, capacity)
             cut == [i \in DOMAIN own |->
                       LET left == Max(capacity - UsedOn(done, own[i].date), 0)
                       IN  [own[i] EXCEPT !.hours = IF @ > left THEN left ELSE @]]
         IN  SharedLoop(Tail(tasks_sorted), day, capacity, done \o cut)

TaskLoopShared(tasks_sorted, day, capacity) ==
    SharedLoop(tasks_sorted, day, capacity, <<>>)

\* the for loop over tasks_sorted
RECURSIVE TaskLoop(_, _, _)
TaskLoop(tasks_sorted, day, capacity) ==
    IF tasks_sorted = <<>> THEN <<>>
    ELSE DayLoop(Head(tasks_sorted), day, day, capacity)
         \o TaskLoop(Tail(tasks_sorted), day, capacity)

\* What the capacity prompt leaves in self.daily_hours: None when the answer is rejected.
AskCapacity(answer) ==
    LET v == ParseFloat(answer) IN
    IF v = None THEN None
    ELSE IF v[1] <= 0 THEN None
    ELSE v

\* The schedule is rebuilt with capacity c.
Rebuild(c) ==
    /\ daily_hours' = Some(c)
    /\ schedule' = TaskLoop(SortedByDue(tasks), today, c)

\* generate_schedule; answer is what the capacity prompt returns if it is shown
\* (None: the user cancelled it).
GenerateWith(answer) ==
    /\ IF tasks = <<>>
       THEN UNCHANGED <<daily_hours, schedule>>          \* "add a task first"
       ELSE IF daily_hours = None
       THEN IF answer = None
            THEN UNCHANGED <<daily_hours, schedule>>     \* prompt cancelled
            ELSE IF AskCapacity(answer[1]) = None
            THEN /\ daily_hours' = None                  \* an error is shown
                 /\ UNCHANGED schedule
            ELSE Rebuild(AskCapacity(answer[1])[1])
       ELSE Rebuild(daily_hours[1])
    /\ UNCHANGED <<tasks, today>>
    /\ UNCHANGED timerVars

\* The capacity prompt is shown only while no capacity is cached.
CapacityAnswers ==
    IF tasks # <<>> /\ daily_hours = None
    THEN {None} \cup {Some(a) : a \in CapacityStrs}
    ELSE {None}

generate_schedule == \E answer \in CapacityAnswers : GenerateWith(answer)

(***************************************************************************)
(* The focus timer.  A thread of _countdown is a record                    *)
(*   pc       where it stands: "start" (before line 219), "while" (221),   *)
(*            "body" (222-226), "if" (227), "publish" (229), "load" and    *)
(*            "store" (the read and the write of self.points += 10, 230),  *)
(*            "label" (231), "reset" (233), "done";                        *)
(*   seconds  its argument;                                                *)
(*   end_in   end_time - time.time(), never below 0: the seconds left      *)
(*            until its end_time (Tick lets time pass);                    *)
(*   loaded   the value of self.points it read at line 230;                *)
(*   outcome  which branch of line 227 it took: "completed", "cancelled",  *)
(*            or "" before that.                                           *)
(***************************************************************************)
NewThread(seconds) ==
    [pc |-> "start", seconds |-> seconds, end_in |-> 0, loaded |-> 0, outcome |-> ""]

Alive(t) == threads[t].pc # "done"

\* f"剩余: {mins:02d}:{secs:02d}" with mins, secs = divmod(remaining, 60)
CountdownText(remaining) ==
    [kind |-> "countdown", mins |-> remaining \div SecondsPerMinute,
     secs |-> remaining % SecondsPerMinute]

DoneText == [kind |-> "done"]      \* "专注完成！"

\* start_focus_session; answer is what the duration prompt returns if it is shown
StartWith(answer) ==
    /\ IF timer_running
       THEN UNCHANGED <<timer_running, threads, focus_thread>>   \* "already focusing"
       ELSE IF answer = None
       THEN UNCHANGED <<timer_running, threads, focus_thread>>   \* prompt cancelled
       ELSE IF ParseInt(answer[1]) = None \/ ParseInt(answer[1])[1] <= 0
       THEN UNCHANGED <<timer_running, threads, focus_thread>>   \* an error is shown
       ELSE /\ Len(threads) < MaxSessions
            /\ timer_running' = TRUE
            /\ threads' = Append(threads,
                                 NewThread(ParseInt(answer[1])[1] * SecondsPerMinute))
            /\ focus_thread' = Len(threads) + 1
    /\ UNCHANGED <<points, timer_label, points_label, cancelled>>
    /\ UNCHANGED schedVars

\* The duration prompt is shown only while no session is running.
MinutesAnswers ==
    IF timer_running THEN {None} ELSE {None} \cup {Some(a) : a \in MinutesStrs}

start_focus_session == \E answer \in MinutesAnswers : StartWith(answer)

\* Whether thread t still has time left, as a cancel request sees it.
TimeLeft(t) ==
    \/ threads[t].pc = "start"
    \/ threads[t].pc \in {"while", "body"} /\ threads[t].end_in > 0

\* A cancellation request for the running session: the running flag is cleared.
cancel ==
    /\ timer_running
    /\ timer_running' = FALSE
    /\ cancelled' = IF TimeLeft(focus_thread)
                    THEN [cancelled EXCEPT !.early = @ \cup {focus_thread}]
                    ELSE [cancelled EXCEPT !.late = @ \cup {focus_thread}]
    /\ UNCHANGED <<points, timer_label, points_label, threads, focus_thread>>
    /\ UNCHANGED schedVars

\* One step of thread t of _countdown.
CountdownStep(t) ==
    LET th == threads[t]
        goto(pc) == threads' = [threads EXCEPT ![t].pc = pc]
    IN
    /\ Alive(t)
    /\ CASE th.pc = "start" ->
              /\ threads' = [threads EXCEPT ![t].pc = "while", ![t].end_in = th.seconds]
              /\ UNCHANGED <<timer_running, points, timer_label, points_label>>
         [] th.pc = "while" ->
              /\ goto(IF timer_running /\ th.end_in > 0 THEN "body" ELSE "if")
              /\ UNCHANGED <<timer_running, points, timer_label, points_label>>
         [] th.pc = "body" ->
              /\ timer_label' = CountdownText(th.end_in)
              /\ goto("while")
              /\ UNCHANGED <<timer_running, points, points_label>>
         [] th.pc = "if" ->
              /\ threads' = IF timer_running
                            THEN [threads EXCEPT ![t].pc = "publish",
                                                 ![t].outcome = "completed"]
                            ELSE [threads EXCEPT ![t].pc = "reset",
                                                 ![t].outcome = "cancelled"]
              /\ UNCHANGED <<timer_running, points, timer_label, points_label>>
         [] th.pc = "publish" ->
              /\ timer_label' = DoneText
              /\ goto("load")
              /\ UNCHANGED <<timer_running, points, points_label>>
         [] th.pc = "load" ->
              /\ threads' = [threads EXCEPT ![t].pc = "store", ![t].loaded = points]
              /\ UNCHANGED <<timer_running, points, timer_label, points_label>>
         [] th.pc = "store" ->
              /\ points' = th.loaded + PointsPerSession
              /\ threads' = [threads EXCEPT ![t].pc = "label", ![t].loaded = 0]
              /\ UNCHANGED <<timer_running, timer_label, points_label>>
         [] th.pc = "label" ->
              /\ points_label' = points
              /\ goto("reset")
              /\ UNCHANGED <<timer_running, points, timer_label>>
         [] th.pc = "reset" ->
              /\ timer_running' = FALSE
              /\ threads' = [threads EXCEPT ![t].pc = "done", ![t].end_in = 0]
              /\ UNCHANGED <<points, timer_label, points_label>>
    /\ UNCHANGED <<focus_thread, cancelled>>
    /\ UNCHANGED schedVars

_countdown == \E t \in DOMAIN threads : CountdownStep(t)

\* ClockStep seconds pass: every end_time comes that much nearer.
Tick ==
    /\ \E t \in DOMAIN threads : threads[t].end_in > 0
    /\ threads' = [t \in DOMAIN threads |->
                     [threads[t] EXCEPT !.end_in = Max(@ - ClockStep, 0)]]
    /\ UNCHANGED <<timer_running, points, timer_label, points_label,
                   focus_thread, cancelled>>
    /\ UNCHANGED schedVars

Init ==
    /\ tasks = <<>>
    /\ daily_hours = None
    /\ schedule = <<>>
    /\ today \in 1..MaxToday     \* day 0 is always past
    /\ timer_running = FALSE
    /\ points = 0
    /\ timer_label = [kind |-> "blank"]
    /\ points_label = 0
    /\ threads = <<>>
    /\ focus_thread = 0
    /\ cancelled = [early |-> {}, late |-> {}]

NextScheduler == add_task \/ generate_schedule

SpecScheduler == Init /\ [][NextScheduler]_vars

NextTimer == start_focus_session \/ cancel \/ _countdown \/ Tick

SpecTimer == Init /\ [][NextTimer]_vars

\* The program as written, which offers no cancel request.
NextAsWritten == start_focus_session \/ _countdown \/ Tick

SpecTimerAsWritten == Init /\ [][NextAsWritten]_vars

\* SpecTimer with every thread scheduled again and again and time passing.
SpecTimerFair ==
    /\ SpecTimer
    /\ \A t \in 1..MaxSessions : WF_vars(t \in DOMAIN threads /\ CountdownStep(t))
    /\ WF_vars(Tick)

(***************************************************************************)
(* Vocabulary of the scheduler properties.                                 *)
(***************************************************************************)
Min(a, b) == IF a <= b THEN a ELSE b
Abs(a) == IF a < 0 THEN 0 - a ELSE a

\* The step is a generate_schedule that rebuilt the schedule.
Rebuilt ==
    /\ tasks # <<>>
    /\ daily_hours' # None
    /\ UNCHANGED tasks
    /\ generate_schedule

\* The entries of a schedule that carry this task name, in order.
EntriesOf(sched, name) == SelectSeq(sched, LAMBDA e : e.name = name)

RECURSIVE SumHours(_)
SumHours(entries) ==
    IF entries = <<>> THEN 0 ELSE Head(entries).hours + SumHours(Tail(entries))

\* Task i is the only task of its name, so the entries of its name are its own.
UniqueName(i) == \A j \in DOMAIN tasks : j # i => tasks[j].name # tasks[i].name

\* The schedule in the state is the one generate_schedule builds from the state.
ScheduleIsCurrent ==
    /\ tasks # <<>>
    /\ daily_hours # None
    /\ schedule = TaskLoop(SortedByDue(tasks), today, daily_hours[1])

(***************************************************************************)
(* C5.  For every task whose due_date is before today, generate_schedule   *)
(* produces exactly one entry for the task, dated today, with              *)
(* min(remaining_hours, daily_capacity) hours.                             *)
(***************************************************************************)
C5_PastDueGetsOneEntryToday ==
    [][Rebuilt =>
         \A i \in DOMAIN tasks :
            (UniqueName(i) /\ tasks[i].due_date < today) =>
               LET es == EntriesOf(schedule', tasks[i].name) IN
               /\ Len(es) = 1
               /\ es[1].date = Strftime(today)
               /\ es[1].hours = Min(remaining_hours(tasks[i]), daily_hours'[1])
      ]_vars

(***************************************************************************)
(* C6.  For a task due N >= 0 days after today with remaining hours R and  *)
(* daily_capacity >= R/(N+1), generate_schedule emits exactly N+1 entries, *)
(* one for each date from today to due_date and none outside, ...          *)
(***************************************************************************)
\* The shape part, common to the claim as stated and as amended.
C6_Dates(i, es) ==
    LET n == tasks[i].due_date - today IN
    /\ Len(es) = n + 1
    /\ \A k \in 1..Len(es) : es[k].date = Strftime(today + k - 1)

C6_Applies(i, c) ==
    /\ UniqueName(i)
    /\ tasks[i].due_date >= today
    /\ c * (tasks[i].due_date - today + 1) >= remaining_hours(tasks[i])

C7_EntriesAreCappedShare ==
    [][Rebuilt =>
         \A i \in DOMAIN tasks :
            UniqueName(i) =>
               LET es == EntriesOf(schedule', tasks[i].name)
                   c == daily_hours'[1]
                   r == remaining_hours(tasks[i])
                   d == Max(tasks[i].due_date - today + 1, 1)
               IN  /\ \A k \in 1..Len(es) :
                         /\ IF c * d < r THEN es[k].hours = c
                                         ELSE 2 * Abs(es[k].hours * d - r) <= d
                         /\ es[k].hours <= c
                   /\ c * d < r =>
                         /\ \A k \in 1..Len(es) : es[k].hours = c
                         /\ SumHours(es) = c * d
                         /\ SumHours(es) < r
      ]_vars

(***************************************************************************)
(* C8.  Allocation is independent per task: the entries generate_schedule  *)
(* emits for a task depend only on that task, today and daily_capacity,    *)
(* whatever other tasks are in the list; no entry is reduced because of    *)
(* the hours other tasks take on the same date (so the hours of a date can *)
(* sum to more than daily_capacity).                                       *)
(***************************************************************************)
\* What one task alone determines: an entry for each day from today to its due
\* date, each with its own capped share.
OwnEntries(task, day, c) ==
    [k \in 1..Max(task.due_date - day + 1, 0) |->
        [date |-> Strftime(day + k - 1), name |-> task.name,
         hours |-> Format2f(IF c * TotalDays(task, day) < remaining_hours(task)
                            THEN <<c, 1>>
                            ELSE <<remaining_hours(task), TotalDays(task, day)>>)]]

RECURSIVE ConcatOwn(_, _, _)
ConcatOwn(ts, day, c) ==
    IF ts = <<>> THEN <<>>
    ELSE OwnEntries(Head(ts), day, c) \o ConcatOwn(Tail(ts), day, c)

C8_PerTaskIndependent ==
    [][Rebuilt =>
         schedule' = ConcatOwn(SortedByDue(tasks), today, daily_hours'[1])
      ]_vars

\* A generated schedule in which two tasks share a date and their hours on it
\* sum to more than the daily capacity.
C8_Witness ==
    /\ ScheduleIsCurrent
    /\ \E i, j \in DOMAIN schedule :
          /\ i < j
          /\ schedule[i].date = schedule[j].date
          /\ schedule[i].hours + schedule[j].hours > daily_hours[1]
          /\ UsedOn(schedule, schedule[i].date) > daily_hours[1]

(***************************************************************************)
(* C9.  Every request with invalid input is rejected and mutates no state: *)
(* an add-task request with an empty field, non-numeric hours,             *)
(* non-positive hours or a malformed date leaves the task list unchanged   *)
(* (so every stored task has hours > 0); a generate request with a         *)
(* non-numeric or non-positive capacity leaves the cached capacity unset   *)
(* and the schedule unchanged; a start request with a non-integer or       *)
(* non-positive duration leaves the timer not running, starts no countdown *)
(* and leaves points unchanged.                                            *)
(***************************************************************************)
InvalidTaskInput(name, hours_str, due_str) ==
    \/ name = "" \/ hours_str = "" \/ due_str = ""
    \/ ParseFloat(hours_str) = None
    \/ ParseFloat(hours_str) # None /\ ParseFloat(hours_str)[1] <= 0
    \/ Strptime(due_str) = None

InvalidCapacity(a) ==
    ParseFloat(a) = None \/ (ParseFloat(a) # None /\ ParseFloat(a)[1] <= 0)

InvalidMinutes(a) ==
    ParseInt(a) = None \/ (ParseInt(a) # None /\ ParseInt(a)[1] <= 0)

C9_InvalidInputChangesNothing ==
    /\ [][\A name \in NameStrs, hours_str \in HoursStrs, due_str \in DueStrs :
            (InvalidTaskInput(name, hours_str, due_str)
               /\ AddTaskWith(name, hours_str, due_str))
            => UNCHANGED <<tasks, daily_hours, schedule>>]_vars
    /\ [](\A i \in DOMAIN tasks : tasks[i].hours > 0)
    /\ [][\A a \in CapacityStrs :
            (InvalidCapacity(a) /\ tasks # <<>> /\ daily_hours = None
               /\ GenerateWith(Some(a)))
            => (daily_hours' = None /\ UNCHANGED <<tasks, schedule>>)]_vars
    /\ [][\A a \in MinutesStrs :
            (InvalidMinutes(a) /\ ~timer_running /\ StartWith(Some(a)))
            => (~timer_running' /\ UNCHANGED <<threads, focus_thread, points>>)]_vars

(***************************************************************************)
(* Vocabulary of the timer properties.                                     *)
(***************************************************************************)
\* Thread t is counting down or completing: it found the running flag set at
\* its last test of it and has not finished.
Active(t) == threads[t].pc \in {"body", "publish", "load", "store", "label"}

\* The sessions a cancellation was requested for.
Requested == cancelled.early \cup cancelled.late

Completed(t) == threads[t].outcome = "completed"

\* No thread is between taking the completion branch and adding its points.
NoAwardPending == \A t \in DOMAIN threads : threads[t].pc \notin {"publish", "load", "store"}

(***************************************************************************)
(* C1.  In every reachable state at most one focus session (countdown      *)
(* loop) is running, and a start request made while a session is running   *)
(* is rejected and changes nothing of the running session, under every     *)
(* interleaving of start and cancel requests with the tick loop.           *)
(***************************************************************************)
C1_AtMostOneRunning ==
    /\ [](Cardinality({t \in DOMAIN threads : Active(t)}) <= 1)
    /\ [][(timer_running /\ start_focus_session)
            => UNCHANGED <<timer_running, points, threads, focus_thread,
                           timer_label, points_label>>]_vars

(***************************************************************************)
(* C2.  A session that is asked to cancel before its time has run out ends *)
(* cancelled: its tick loop never takes the completion branch (it awards   *)
(* no points and publishes no completion message), whatever the foreground *)
(* does afterwards.                                                        *)
(***************************************************************************)
C2_CancelledSessionNeverCompletes ==
    \A t \in cancelled.early : ~Completed(t)

(***************************************************************************)
(* C3.  points is changed only by a session completing, by exactly +10,    *)
(* once per completed session: points = 10 x (sessions completed),         *)
(* points >= 0, points never decreases, and a cancelled session leaves     *)
(* points unchanged.                                                       *)
(***************************************************************************)
C3_PointsAreTenPerCompletion ==
    /\ [](points >= 0)
    /\ [](NoAwardPending =>
            points = PointsPerSession
                       * Cardinality({t \in DOMAIN threads : Completed(t)}))
    /\ [][points' >= points]_vars
    /\ [][points' # points =>
            /\ points' = points + PointsPerSession
            /\ \E t \in DOMAIN threads :
                  threads[t].pc = "store" /\ threads'[t].pc = "label"]_vars
    /\ [](\A t \in cancelled.early : ~Completed(t))

(***************************************************************************)
(* C4.  On natural completion the points total is increased before the     *)
(* completion message is published: in no reachable state is the           *)
(* completion message of a session visible while points does not yet       *)
(* include that session's 10 points.                                       *)
(***************************************************************************)
C4_PointsBeforeCompletionMessage ==
    \A t \in DOMAIN threads :
        (timer_label = DoneText /\ Completed(t)) => threads[t].pc \notin {"load", "store"}

(***************************************************************************)
(* C10.  Under fair scheduling and advancing time every started session    *)
(* that is not cancelled eventually completes, every session eventually    *)
(* leaves the running flag cleared, a start made then is accepted and      *)
(* begins a fresh session with its full duration, and the flag is never    *)
(* left set with no countdown loop alive.  (First conjunct: a session      *)
(* nobody cancelled never ends otherwise than completed.)                  *)
(***************************************************************************)
C10_SessionsEndAndRestart ==
    /\ [](\A t \in DOMAIN threads :
            threads[t].outcome = "cancelled" => t \in Requested)
    /\ \A t \in 1..MaxSessions :
          (t \in DOMAIN threads)
             ~> (t \in DOMAIN threads /\ (Completed(t) \/ t \in Requested))
    /\ timer_running ~> ~timer_running
    /\ [](timer_running => \E t \in DOMAIN threads : Alive(t))
    /\ [][\A a \in MinutesStrs :
            (~InvalidMinutes(a) /\ ~timer_running /\ StartWith(Some(a)))
            => /\ timer_running'
               /\ Len(threads') = Len(threads) + 1
               /\ threads'[Len(threads')] =
                     NewThread(ParseInt(a)[1] * SecondsPerMinute)]_vars

====
